---------------------------- MODULE Spec2Model ----------------------------
(***************************************************************************)
(* wspmcestats: the WebSocket permessage-compression statistics tool.      *)
(*                                                                         *)
(* main() parses key=value arguments into a test_result, deflate_test()    *)
(* validates the settings, sets up one raw-deflate context and compresses  *)
(* every line of standard input with one deflate() call, and print_stats() *)
(* aggregates the per-line records.                                        *)
(*                                                                         *)
(* Modelling conventions                                                   *)
(*  - A line is a sequence of bytes; a byte is a one-character string.     *)
(*  - A double is an exact fraction <<numerator, denominator>>; an elapsed *)
(*    time is a whole number of clock ticks.                               *)
(*  - zlib is an external library.  deflateInit2, deflateBound and deflate *)
(*    are modelled at their call sites by what they do to the caller: a    *)
(*    greedy LZ77 parse against the sliding window, coded as one fixed-    *)
(*    Huffman block (or one stored block at level 0) followed by the       *)
(*    empty stored block of a sync/full flush.                             *)
(*  - A value that the code reads without having written it (the fields   *)
(*    of `line_result lr` that the empty-line branch leaves alone, and     *)
(*    total_elapsed_seconds before its first +=) is a nondeterministic     *)
(*    choice from a small set.                                             *)
(*  - Every per-process variable is a function of the run: run 1 is the    *)
(*    process under test, run 2 is a second execution of deflate_test      *)
(*    used to compare two sessions (SpecTwin).                             *)
(***************************************************************************)
EXTENDS Integers, Sequences, FiniteSets, TLC

VARIABLES
    pc,            \* run -> position in main / deflate_test
    i,             \* run -> main's argument loop counter (argv index - 1)
    r,             \* run -> test_result r (settings, error, line_results)
    flush,         \* run -> deflate_test's local `flush`
    zlib_state,    \* run -> the z_stream: allocated?, settings, sliding window
    out_buf,       \* run -> pod_buffer out_buf: m_cursor, m_capacity
    consumed,      \* run -> the lines std::getline has returned so far
    stats,         \* run -> aggregate and memory stats computed by calc_stats
    exit_status,   \* run -> the value main returned (-1 while running)
    perm,          \* SpecTwin: which line of run 1 each line of run 2 is
    fo,            \* SpecFrame: the last frame_overhead call and its result
    args           \* SpecArgs: argv[1..i] of run 1, the arguments read so far

vars == <<pc, i, r, flush, zlib_state, out_buf, consumed, stats,
          exit_status, perm, fo, args>>

Runs == {1, 2}

---------------------------------------------------------------------------
(* Bounds of the model *)

\* the number of command-line arguments main is given
MaxArgs == 2

\* the number of lines on standard input
MaxLines == 2

\* the lines standard input is made of
Lines ==
    { <<>>,
      <<"a">>,
      <<"a", "b", "a", "b">>,
      <<"a", "a", "a", "a", "a", "a", "a", "a">> }

\* what an uninitialized size_t / double may hold
GarbageSizes == {0, 9}
GarbageTimes == {0, 5}

\* what the high-resolution clock may measure around one deflate call
Ticks == {1, 2}

---------------------------------------------------------------------------
(* Helpers *)

Max(a, b) == IF a >= b THEN a ELSE b
Min(a, b) == IF a <= b THEN a ELSE b
CeilDiv(a, b) == (a + b - 1) \div b

\* Seq s without its first n elements
Drop(s, n) == SubSeq(s, n + 1, Len(s))

\* double(a) / double(b), kept exact
Ratio(a, b) == <<a, b>>

---------------------------------------------------------------------------
(* frame_overhead *)

\* frame_overhead with the first boundary one byte early
frame_overhead_early(masked, payload_size) ==
    LET size == IF masked THEN 4 ELSE 0
    IN  IF payload_size < 125 THEN size + 2
        ELSE IF payload_size <= 65535 THEN size + 4
        ELSE size + 8

frame_overhead(masked, payload_size) ==
    LET size == IF masked THEN 4 ELSE 0
    IN  IF payload_size <= 125 THEN size + 2
        ELSE IF payload_size <= 65535 THEN size + 4
        ELSE size + 8

---------------------------------------------------------------------------
(* test_result *)

\* `test_result r;` followed by main's six assignments
DefaultResult ==
    [ error            |-> FALSE,
      is_server        |-> TRUE,
      sending          |-> TRUE,
      context_takeover |-> TRUE,
      speed_level      |-> 6,
      window_bits      |-> 15,
      memory_level     |-> 8,
      line_results     |-> <<>> ]

\* A command-line argument, split where load_setting splits it: eq says
\* whether it holds a '=', key is the text before the first '=' (the whole
\* argument when there is none), val the characters after it.
Arg(key, val) == [eq |-> TRUE, key |-> key, val |-> val]
Flag(text) == [eq |-> FALSE, key |-> text, val |-> <<>>]

ArgVocabulary ==
    { Flag("--help"), Flag("-h"), Flag("verbose"),
      Arg("server", <<"f", "a", "l", "s", "e">>),
      Arg("server", <<"t", "r", "u", "e">>),
      Arg("sending", <<"f", "a", "l", "s", "e">>),
      Arg("context_takeover", <<"f", "a", "l", "s", "e">>),
      Arg("speed_levels", <<"-", "1">>),
      Arg("speed_levels", <<"0">>),
      Arg("speed_levels", <<"9">>),
      Arg("speed_levels", <<"1", "0">>),
      Arg("speed_level", <<"1">>),
      Arg("window_bits", <<"7">>),
      Arg("window_bits", <<"8">>),
      Arg("window_bits", <<"1", "6">>),
      Arg("memory_level", <<"0">>),
      Arg("memory_level", <<"1">>),
      Arg("memory_level", <<"9">>),
      Arg("memory_level", <<"1", "0">>),
      Arg("memory_level", <<"x">>) }

Digits == <<"0", "1", "2", "3", "4", "5", "6", "7", "8", "9">>
IsDigit(c) == \E d \in 1..10 : Digits[d] = c
DigitValue(c) == (CHOOSE d \in 1..10 : Digits[d] = c) - 1

\* the value of the leading run of digits of s, continuing from acc
RECURSIVE AtoiDigits(_, _)
AtoiDigits(s, acc) ==
    IF s = <<>> \/ ~IsDigit(Head(s)) THEN acc
    ELSE AtoiDigits(Tail(s), 10 * acc + DigitValue(Head(s)))

\* atoi: an optional sign, then digits up to the first other character;
\* 0 when there is no digit
atoi(s) ==
    IF s = <<>> THEN 0
    ELSE IF Head(s) = "-" THEN 0 - AtoiDigits(Tail(s), 0)
    ELSE IF Head(s) = "+" THEN AtoiDigits(Tail(s), 0)
    ELSE AtoiDigits(s, 0)

IsTrue(val) == val = <<"t", "r", "u", "e">>

\* test_result::load_setting
load_setting(rr, arg) ==
    IF ~arg.eq THEN rr
    ELSE IF arg.key = "server" THEN [rr EXCEPT !.is_server = IsTrue(arg.val)]
    ELSE IF arg.key = "sending" THEN [rr EXCEPT !.sending = IsTrue(arg.val)]
    ELSE IF arg.key = "context_takeover"
         THEN [rr EXCEPT !.context_takeover = IsTrue(arg.val)]
    ELSE IF arg.key = "speed_levels"
         THEN [rr EXCEPT !.speed_level = atoi(arg.val)]
    ELSE IF arg.key = "window_bits"
         THEN [rr EXCEPT !.window_bits = atoi(arg.val)]
    ELSE IF arg.key = "memory_level"
         THEN [rr EXCEPT !.memory_level = atoi(arg.val)]
    ELSE rr

\* check_validity letting a window of 7 bits through
check_validity_wide(rr) ==
    LET e1 == IF rr.speed_level > 9 \/ rr.speed_level < 0 THEN TRUE ELSE rr.error
        e2 == IF rr.window_bits > 15 \/ rr.window_bits < 7 THEN TRUE ELSE e1
        e3 == IF rr.memory_level > 9 \/ rr.memory_level < 1 THEN TRUE ELSE e2
    IN  e3

\* test_result::check_validity: the value of `error` it leaves behind (it
\* returns !error)
check_validity(rr) ==
    LET e1 == IF rr.speed_level > 9 \/ rr.speed_level < 0 THEN TRUE ELSE rr.error
        e2 == IF rr.window_bits > 15 \/ rr.window_bits < 8 THEN TRUE ELSE e1
        e3 == IF rr.memory_level > 9 \/ rr.memory_level < 1 THEN TRUE ELSE e2
    IN  e3

---------------------------------------------------------------------------
(* zlib, as deflate_test uses it *)

\* the z_stream before deflateInit2 has set it up
NoStream == [allocated |-> FALSE]

\* deflateInit2(&zlib_state, level, Z_DEFLATED, -window_bits, memory_level,
\* Z_DEFAULT_STRATEGY) returning Z_OK: a raw-deflate stream with an empty
\* window.  zlib turns a window of 8 bits into one of 9.
deflateInit2(level, window_bits, memory_level) ==
    [ allocated |-> TRUE,
      level     |-> level,
      w_bits    |-> IF window_bits = 8 THEN 9 ELSE window_bits,
      hash_bits |-> memory_level + 7,
      window    |-> <<>> ]

\* deflateBound(&zlib_state, sourceLen) of a raw stream (no wrapper bytes)
deflateBound(zs, sourceLen) ==
    IF zs.w_bits # 15 \/ zs.hash_bits # 8 + 7
    THEN sourceLen + ((sourceLen + 7) \div 8) + ((sourceLen + 63) \div 64) + 5
    ELSE sourceLen + (sourceLen \div 4096) + (sourceLen \div 16384)
         + (sourceLen \div 33554432) + 13 - 6

\* how far back a match may start: the window less zlib's MIN_LOOKAHEAD
MaxDist(zs) == 2 ^ zs.w_bits - 262

\* the length of the match at position p of buf with the text d bytes back,
\* counted from k; a match is at most 258 bytes long and may overlap itself
RECURSIVE MatchLen(_, _, _, _)
MatchLen(buf, p, d, k) ==
    IF k < 258 /\ p + k <= Len(buf) /\ buf[p + k] = buf[p + k - d]
    THEN MatchLen(buf, p, d, k + 1)
    ELSE k

\* the longest match at position p, the nearest one among equals
LongestMatch(buf, p, maxdist) ==
    LET dists == 1..Min(p - 1, maxdist)
        best  == IF dists = {} THEN 0
                 ELSE CHOOSE l \in {MatchLen(buf, p, d, 0) : d \in dists} :
                        \A d \in dists : MatchLen(buf, p, d, 0) <= l
    IN  IF best = 0 THEN [len |-> 0, dist |-> 0]
        ELSE [ len  |-> best,
               dist |-> CHOOSE d \in dists :
                          /\ MatchLen(buf, p, d, 0) = best
                          /\ \A e \in dists :
                               MatchLen(buf, p, e, 0) = best => d <= e ]

\* bits of a length code and of a distance code in a fixed-Huffman block
LengthBits(len) ==
    IF len <= 10 THEN 7 ELSE IF len <= 18 THEN 8 ELSE IF len <= 34 THEN 9
    ELSE IF len <= 66 THEN 10 ELSE IF len <= 114 THEN 11
    ELSE IF len <= 130 THEN 12 ELSE IF len <= 257 THEN 13 ELSE 8

RECURSIVE DistExtraBits(_)
DistExtraBits(d) == IF d <= 4 THEN 0 ELSE 1 + DistExtraBits(CeilDiv(d, 2))

DistBits(d) == 5 + DistExtraBits(d)

\* bits of the literals and matches that code buf from position p on: a
\* match of 3 bytes or more is taken, anything else is an 8-bit literal
RECURSIVE ParseBits(_, _, _)
ParseBits(buf, p, maxdist) ==
    IF p > Len(buf) THEN 0
    ELSE LET m == LongestMatch(buf, p, maxdist)
         IN  IF m.len >= 3
             THEN LengthBits(m.len) + DistBits(m.dist)
                  + ParseBits(buf, p + m.len, maxdist)
             ELSE 8 + ParseBits(buf, p + 1, maxdist)

\* the bytes one deflate(&zlib_state, flush) call has to write for `line`:
\* level 0 writes stored blocks (5 bytes of header for each 65535 bytes),
\* the other levels one fixed-Huffman block (3 header bits, the codes, the
\* 7-bit end of block); the flush then adds an empty stored block: 3 bits,
\* padding to a byte, and the 4 bytes 00 00 FF FF.
DeflateOutput(zs, line) ==
    IF zs.level = 0
    THEN Len(line) + 5 * CeilDiv(Len(line), 65535) + 5
    ELSE CeilDiv(3 + ParseBits(zs.window \o line, Len(zs.window) + 1, MaxDist(zs))
                 + 7 + 3, 8) + 4

\* a deflate that forgets the window after every flush
WindowAfter_forget(zs, line, fl) == <<>>

\* the window after `line` went through: Z_FULL_FLUSH forgets it, Z_SYNC_FLUSH
\* keeps the last 2^w_bits bytes
WindowAfter(zs, line, fl) ==
    IF fl = "Z_FULL_FLUSH" THEN <<>>
    ELSE LET all == zs.window \o line
         IN  Drop(all, Max(0, Len(all) - 2 ^ zs.w_bits))

\* deflate(&zlib_state, flush) with avail_in = |line| and avail_out bytes of
\* room: what is left of avail_out, and the stream afterwards
deflate(zs, line, fl, avail_out) ==
    [ avail_out |-> avail_out - Min(DeflateOutput(zs, line), avail_out),
      stream    |-> [zs EXCEPT !.window = WindowAfter(zs, line, fl)] ]

---------------------------------------------------------------------------
(* pod_buffer *)

EmptyBuffer == [m_cursor |-> 0, m_capacity |-> 0]

resize(buf, new_size) ==
    IF new_size <= buf.m_capacity THEN buf
    ELSE [buf EXCEPT !.m_capacity = new_size]

set_cursor(buf, cursor) == [buf EXCEPT !.m_cursor = cursor]
adv_cursor(buf, cursor) == [buf EXCEPT !.m_cursor = buf.m_cursor + cursor]
avail(buf) == buf.m_capacity - buf.m_cursor

---------------------------------------------------------------------------
(* deflate_test's loop body *)

\* the masking flag of outbound client frames only
Masked_sending(rr) == ~rr.is_server /\ rr.sending

\* the masking flag both frame_overhead calls are given
Masked(rr) == ~rr.is_server

\* the flush mode that ignores context_takeover
FlushMode_sync(rr) == "Z_SYNC_FLUSH"

\* the flush mode, chosen once before the loop
FlushMode(rr) == IF rr.context_takeover THEN "Z_SYNC_FLUSH" ELSE "Z_FULL_FLUSH"

\* the record of an empty line with nothing counted for it
EmptyLineResult_zero(rr, gs, gt) ==
    [ payload_size              |-> 0,
      frame_overhead            |-> frame_overhead(~rr.is_server, 0),
      frame_overhead_compressed |-> gs,
      compressed_size           |-> 0,
      ratio                     |-> Ratio(0, 1),
      elapsed_seconds           |-> gt ]

\* the record of an empty line: frame_overhead_compressed and elapsed_seconds
\* are never written, so they hold whatever lr's storage held (gs, gt)
EmptyLineResult(rr, gs, gt) ==
    [ payload_size              |-> 0,
      frame_overhead            |-> frame_overhead(Masked(rr), 0),
      frame_overhead_compressed |-> gs,
      compressed_size           |-> 2,
      ratio                     |-> Ratio(2, 1),
      elapsed_seconds           |-> gt ]

\* lines 301-322 for a non-empty line: the output buffer and the stream
\* after the one deflate call
CompressStep(zs, buf, line, fl) ==
    LET est_size == deflateBound(zs, Len(line))
        b1       == set_cursor(resize(buf, est_size), 0)
        d        == deflate(zs, line, fl, avail(b1))
    IN  [ out_buf |-> adv_cursor(b1, avail(b1) - d.avail_out),
          stream  |-> d.stream ]

\* the record of a non-empty line with the flush bytes left in its size
LineResult_whole(rr, line, buf, t) ==
    LET compressed_size == buf.m_cursor
    IN  [ payload_size              |-> Len(line),
          frame_overhead            |-> frame_overhead(Masked(rr), Len(line)),
          frame_overhead_compressed |-> frame_overhead(Masked(rr), compressed_size),
          compressed_size           |-> compressed_size,
          ratio                     |-> Ratio(compressed_size, Len(line)),
          elapsed_seconds           |-> t ]

\* lines 333-336: the record of a non-empty line compressed into buf.  The
\* subtraction is one of size_t: a cursor below 4 would wrap to a value
\* near 2^64, which is beyond these integers and shows here as a negative
\* compressed_size
LineResult(rr, line, buf, t) ==
    LET compressed_size == buf.m_cursor - 4
    IN  [ payload_size              |-> Len(line),
          frame_overhead            |-> frame_overhead(Masked(rr), Len(line)),
          frame_overhead_compressed |-> frame_overhead(Masked(rr), compressed_size),
          compressed_size           |-> compressed_size,
          ratio                     |-> Ratio(compressed_size, Len(line)),
          elapsed_seconds           |-> t ]

---------------------------------------------------------------------------
(* test_result::calc_stats *)

\* the loop of calc_stats leaving the empty messages out
RECURSIVE SumResults_skip(_, _, _)
SumResults_skip(results, k, acc) ==
    IF k > Len(results) THEN acc
    ELSE LET lr == results[k]
         IN  SumResults_skip(results, k + 1,
                IF lr.payload_size = 0 THEN acc
                ELSE [ total_payload |-> acc.total_payload + lr.payload_size,
                       total_frame_overhead |->
                           acc.total_frame_overhead + lr.frame_overhead,
                       total_frame_overhead_compressed |->
                           acc.total_frame_overhead_compressed
                           + lr.frame_overhead_compressed,
                       total_compressed_size |->
                           acc.total_compressed_size + lr.compressed_size,
                       total_elapsed_seconds |->
                           acc.total_elapsed_seconds + lr.elapsed_seconds ])

\* the for loop over line_results, from record k on, adding to acc
RECURSIVE SumResults(_, _, _)
SumResults(results, k, acc) ==
    IF k > Len(results) THEN acc
    ELSE LET lr == results[k]
         IN  SumResults(results, k + 1,
                [ total_payload |-> acc.total_payload + lr.payload_size,
                  total_frame_overhead |->
                      acc.total_frame_overhead + lr.frame_overhead,
                  total_frame_overhead_compressed |->
                      acc.total_frame_overhead_compressed
                      + lr.frame_overhead_compressed,
                  total_compressed_size |->
                      acc.total_compressed_size + lr.compressed_size,
                  total_elapsed_seconds |->
                      acc.total_elapsed_seconds + lr.elapsed_seconds ])

\* the ratio calc_stats stores
TotalRatio(sums) == Ratio(sums.total_compressed_size, sums.total_payload)

\* calc_stats with the deflate estimate shifted by window_bits + 1
calc_stats_shift(rr, prev_elapsed) ==
    LET sums == SumResults(rr.line_results, 1,
                    [ total_payload                   |-> 0,
                      total_frame_overhead            |-> 0,
                      total_frame_overhead_compressed |-> 0,
                      total_compressed_size           |-> 0,
                      total_elapsed_seconds           |-> prev_elapsed ])
    IN  [ computed                        |-> TRUE,
          total_payload                   |-> sums.total_payload,
          total_frame_overhead            |-> sums.total_frame_overhead,
          total_frame_overhead_compressed |-> sums.total_frame_overhead_compressed,
          total_compressed_size           |-> sums.total_compressed_size,
          total_ratio                     |-> TotalRatio(sums),
          total_elapsed_seconds           |-> sums.total_elapsed_seconds,
          mem_usage |->
              IF rr.sending
              THEN 2 ^ (rr.window_bits + 1) + 2 ^ (rr.memory_level + 9)
              ELSE 2 ^ rr.window_bits,
          mem_usage_inflate_32 |->
              IF rr.sending THEN 2 ^ rr.window_bits + 1440 * 2 * 4 ELSE 0,
          mem_usage_inflate_64 |->
              IF rr.sending THEN 2 ^ rr.window_bits + 1440 * 2 * 8 ELSE 0 ]

\* calc_stats on r = rr when total_elapsed_seconds held prev_elapsed: four
\* totals restart from 0, total_elapsed_seconds does not
calc_stats(rr, prev_elapsed) ==
    LET sums == SumResults(rr.line_results, 1,
                    [ total_payload                   |-> 0,
                      total_frame_overhead            |-> 0,
                      total_frame_overhead_compressed |-> 0,
                      total_compressed_size           |-> 0,
                      total_elapsed_seconds           |-> prev_elapsed ])
    IN  [ computed                        |-> TRUE,
          total_payload                   |-> sums.total_payload,
          total_frame_overhead            |-> sums.total_frame_overhead,
          total_frame_overhead_compressed |-> sums.total_frame_overhead_compressed,
          total_compressed_size           |-> sums.total_compressed_size,
          total_ratio                     |-> TotalRatio(sums),
          total_elapsed_seconds           |-> sums.total_elapsed_seconds,
          mem_usage |->
              IF rr.sending
              THEN 2 ^ (rr.window_bits + 2) + 2 ^ (rr.memory_level + 9)
              ELSE 2 ^ rr.window_bits + 1440 * 2 * 4,
          mem_usage_inflate_32 |->
              IF rr.sending THEN 2 ^ rr.window_bits + 1440 * 2 * 4 ELSE 0,
          mem_usage_inflate_64 |->
              IF rr.sending THEN 2 ^ rr.window_bits + 1440 * 2 * 8 ELSE 0 ]

\* the aggregate fields before calc_stats has run
NoStats == [computed |-> FALSE]

---------------------------------------------------------------------------
(* The program, one action per step of run n *)

IsHelp(arg) == arg = Flag("--help") \/ arg = Flag("-h")

\* main, lines 388-397: one iteration of the argument loop on a setting
LoadArg(n, arg) ==
    /\ pc[n] = "args"
    /\ i[n] < MaxArgs
    /\ ~IsHelp(arg)
    /\ r' = [r EXCEPT ![n] = load_setting(r[n], arg)]
    /\ i' = [i EXCEPT ![n] = i[n] + 1]
    /\ UNCHANGED <<pc, flush, zlib_state, out_buf, consumed, stats, exit_status>>

\* main, lines 391-394: --help or -h prints the usage and returns 0
Help(n, arg) ==
    /\ pc[n] = "args"
    /\ i[n] < MaxArgs
    /\ IsHelp(arg)
    /\ pc' = [pc EXCEPT ![n] = "exit_help"]
    /\ exit_status' = [exit_status EXCEPT ![n] = 0]
    /\ i' = [i EXCEPT ![n] = 0]
    /\ UNCHANGED <<r, flush, zlib_state, out_buf, consumed, stats>>

\* main, line 399: the arguments are used up, deflate_test is called
CallDeflateTest(n) ==
    /\ pc[n] = "args"
    /\ pc' = [pc EXCEPT ![n] = "check"]
    /\ i' = [i EXCEPT ![n] = 0]
    /\ UNCHANGED <<r, flush, zlib_state, out_buf, consumed, stats, exit_status>>

\* deflate_test, lines 264-266: check_validity fails, r is returned as it is
ValidityFails(n) ==
    /\ pc[n] = "check"
    /\ check_validity(r[n])
    /\ r' = [r EXCEPT ![n].error = TRUE]
    /\ pc' = [pc EXCEPT ![n] = "ret"]
    /\ UNCHANGED <<i, flush, zlib_state, out_buf, consumed, stats, exit_status>>

\* deflate_test, line 264: check_validity passes
ValidityPasses(n) ==
    /\ pc[n] = "check"
    /\ ~check_validity(r[n])
    /\ pc' = [pc EXCEPT ![n] = "init"]
    /\ UNCHANGED <<i, r, flush, zlib_state, out_buf, consumed, stats, exit_status>>

\* deflate_test, lines 268-284: deflateInit2 returns Z_OK, flush is chosen
InitOk(n) ==
    /\ pc[n] = "init"
    /\ zlib_state' = [zlib_state EXCEPT ![n] =
           deflateInit2(r[n].speed_level, r[n].window_bits, r[n].memory_level)]
    /\ flush' = [flush EXCEPT ![n] = FlushMode(r[n])]
    /\ pc' = [pc EXCEPT ![n] = "loop"]
    /\ UNCHANGED <<i, r, out_buf, consumed, stats, exit_status>>

\* deflate_test, lines 268-282: deflateInit2 does not return Z_OK (it found
\* no memory, or it refuses the parameters); nothing stays allocated
InitFails(n) ==
    /\ pc[n] = "init"
    /\ r' = [r EXCEPT ![n].error = TRUE]
    /\ pc' = [pc EXCEPT ![n] = "ret"]
    /\ UNCHANGED <<i, flush, zlib_state, out_buf, consumed, stats, exit_status>>

\* the empty-line branch leaving the loop iteration before the push_back
EmptyLine_nopush(n, gs, gt) ==
    /\ pc[n] = "loop"
    /\ Len(consumed[n]) < MaxLines
    /\ consumed' = [consumed EXCEPT ![n] = Append(consumed[n], <<>>)]
    /\ UNCHANGED <<pc, i, r, flush, zlib_state, out_buf, stats, exit_status>>

\* deflate_test, lines 287-299: getline returns an empty line
EmptyLine(n, gs, gt) ==
    /\ pc[n] = "loop"
    /\ Len(consumed[n]) < MaxLines
    /\ consumed' = [consumed EXCEPT ![n] = Append(consumed[n], <<>>)]
    /\ r' = [r EXCEPT ![n].line_results =
                Append(r[n].line_results, EmptyLineResult(r[n], gs, gt))]
    /\ UNCHANGED <<pc, i, flush, zlib_state, out_buf, stats, exit_status>>

\* deflate_test, lines 287-338: getline returns a non-empty line, which is
\* compressed in time t; the record is pushed unless the buffer is full
CompressLine(n, line, t) ==
    /\ pc[n] = "loop"
    /\ Len(consumed[n]) < MaxLines
    /\ line # <<>>
    /\ consumed' = [consumed EXCEPT ![n] = Append(consumed[n], line)]
    /\ LET step == CompressStep(zlib_state[n], out_buf[n], line, flush[n])
       IN  /\ zlib_state' = [zlib_state EXCEPT ![n] = step.stream]
           /\ out_buf' = [out_buf EXCEPT ![n] = step.out_buf]
           /\ IF avail(step.out_buf) = 0
              THEN /\ r' = [r EXCEPT ![n].error = TRUE]
                   /\ pc' = [pc EXCEPT ![n] = "ret"]
              ELSE /\ r' = [r EXCEPT ![n].line_results =
                              Append(r[n].line_results,
                                     LineResult(r[n], line, step.out_buf, t))]
                   /\ pc' = pc
    /\ UNCHANGED <<i, flush, stats, exit_status>>

\* deflate_test, lines 287 and 340: getline finds the end of the input
EndOfInput(n) ==
    /\ pc[n] = "loop"
    /\ pc' = [pc EXCEPT ![n] = "ret"]
    /\ UNCHANGED <<i, r, flush, zlib_state, out_buf, consumed, stats, exit_status>>

\* main, lines 401-404: r.error is set, main returns 1
ReturnError(n) ==
    /\ pc[n] = "ret"
    /\ r[n].error
    /\ pc' = [pc EXCEPT ![n] = "exit_error"]
    /\ exit_status' = [exit_status EXCEPT ![n] = 1]
    /\ UNCHANGED <<i, r, flush, zlib_state, out_buf, consumed, stats>>

\* main printing the stats without looking at r.error
PrintStats_unchecked(n, g) ==
    /\ pc[n] = "ret"
    /\ stats' = [stats EXCEPT ![n] = calc_stats(r[n], g)]
    /\ pc' = [pc EXCEPT ![n] = "exit_ok"]
    /\ exit_status' = [exit_status EXCEPT ![n] = 0]
    /\ UNCHANGED <<i, r, flush, zlib_state, out_buf, consumed>>

\* main, lines 406-408: print_stats (which calls calc_stats), main returns 0;
\* g is what total_elapsed_seconds held, never having been written
PrintStats(n, g) ==
    /\ pc[n] = "ret"
    /\ ~r[n].error
    /\ stats' = [stats EXCEPT ![n] = calc_stats(r[n], g)]
    /\ pc' = [pc EXCEPT ![n] = "exit_ok"]
    /\ exit_status' = [exit_status EXCEPT ![n] = 0]
    /\ UNCHANGED <<i, r, flush, zlib_state, out_buf, consumed>>

---------------------------------------------------------------------------
(* One run of the program *)

NoCall == [called |-> FALSE]

Init ==
    /\ pc = [n \in Runs |-> IF n = 1 THEN "args" ELSE "idle"]
    /\ i = [n \in Runs |-> 0]
    /\ r = [n \in Runs |-> DefaultResult]
    /\ flush = [n \in Runs |-> "unset"]
    /\ zlib_state = [n \in Runs |-> NoStream]
    /\ out_buf = [n \in Runs |-> EmptyBuffer]
    /\ consumed = [n \in Runs |-> <<>>]
    /\ stats = [n \in Runs |-> NoStats]
    /\ exit_status = [n \in Runs |-> -1]
    /\ perm = <<>>
    /\ fo = NoCall
    /\ args = <<>>

\* a step of the one run leaves the comparison variables alone
Solo == UNCHANGED <<perm, fo, args>>

Next ==
    \/ \E arg \in ArgVocabulary : LoadArg(1, arg) /\ Solo
    \/ \E arg \in ArgVocabulary : Help(1, arg) /\ Solo
    \/ CallDeflateTest(1) /\ Solo
    \/ ValidityFails(1) /\ Solo
    \/ ValidityPasses(1) /\ Solo
    \/ InitOk(1) /\ Solo
    \/ InitFails(1) /\ Solo
    \/ \E gs \in GarbageSizes, gt \in GarbageTimes : EmptyLine(1, gs, gt) /\ Solo
    \/ \E line \in Lines, t \in Ticks : CompressLine(1, line, t) /\ Solo
    \/ EndOfInput(1) /\ Solo
    \/ ReturnError(1) /\ Solo
    \/ \E g \in GarbageTimes : PrintStats(1, g) /\ Solo

Spec == Init /\ [][Next]_vars

---------------------------------------------------------------------------
(* Two sessions (calls of deflate_test) under the same settings: session 1 *)
(* reads any input; once it has returned, session 2 reads the same lines   *)
(* in an order of its own (perm[k] is the place in session 1's input of    *)
(* session 2's k-th line).                                                 *)

\* the argument lists the two sessions are compared under
TwinArgv ==
    { <<>>,
      << Arg("context_takeover", <<"f", "a", "l", "s", "e">>) >>,
      << Arg("server", <<"f", "a", "l", "s", "e">>),
         Arg("context_takeover", <<"f", "a", "l", "s", "e">>) >>,
      << Arg("context_takeover", <<"f", "a", "l", "s", "e">>),
         Arg("window_bits", <<"8">>) >>,
      << Arg("speed_levels", <<"0">>) >>,
      << Arg("window_bits", <<"7">>) >> }

\* main's argument loop over a whole argument list
RECURSIVE LoadAll(_, _)
LoadAll(rr, argv) ==
    IF argv = <<>> THEN rr ELSE LoadAll(load_setting(rr, Head(argv)), Tail(argv))

\* deflate_test has returned to main
Returned(n) == pc[n] = "ret"

\* the places of session 1's input that session 2 has not read yet
Unread == {k \in 1..Len(consumed[1]) : \A j \in 1..Len(perm) : perm[j] # k}

InitTwin ==
    /\ pc = [n \in Runs |-> "check"]
    /\ i = [n \in Runs |-> 0]
    /\ \E argv \in TwinArgv : r = [n \in Runs |-> LoadAll(DefaultResult, argv)]
    /\ flush = [n \in Runs |-> "unset"]
    /\ zlib_state = [n \in Runs |-> NoStream]
    /\ out_buf = [n \in Runs |-> EmptyBuffer]
    /\ consumed = [n \in Runs |-> <<>>]
    /\ stats = [n \in Runs |-> NoStats]
    /\ exit_status = [n \in Runs |-> -1]
    /\ perm = <<>>
    /\ fo = NoCall
    /\ args = <<>>

\* session 2 reads the line at place k of session 1's input
TwinEmptyLine(k, gs, gt) ==
    /\ Returned(1)
    /\ k \in Unread
    /\ consumed[1][k] = <<>>
    /\ EmptyLine(2, gs, gt)
    /\ perm' = Append(perm, k)
    /\ UNCHANGED <<fo, args>>

TwinCompressLine(k, t) ==
    /\ Returned(1)
    /\ k \in Unread
    /\ CompressLine(2, consumed[1][k], t)
    /\ perm' = Append(perm, k)
    /\ UNCHANGED <<fo, args>>

TwinEndOfInput ==
    /\ Returned(1)
    /\ Unread = {}
    /\ EndOfInput(2)
    /\ Solo

NextTwin ==
    \/ ValidityFails(1) /\ Solo
    \/ ValidityPasses(1) /\ Solo
    \/ InitOk(1) /\ Solo
    \/ InitFails(1) /\ Solo
    \/ \E gs \in GarbageSizes, gt \in GarbageTimes : EmptyLine(1, gs, gt) /\ Solo
    \/ \E line \in Lines, t \in Ticks : CompressLine(1, line, t) /\ Solo
    \/ EndOfInput(1) /\ Solo
    \/ Returned(1) /\ ValidityFails(2) /\ Solo
    \/ Returned(1) /\ ValidityPasses(2) /\ Solo
    \/ Returned(1) /\ InitOk(2) /\ Solo
    \/ Returned(1) /\ InitFails(2) /\ Solo
    \/ \E k \in 1..MaxLines, gs \in GarbageSizes, gt \in GarbageTimes :
          TwinEmptyLine(k, gs, gt)
    \/ \E k \in 1..MaxLines, t \in Ticks : TwinCompressLine(k, t)
    \/ TwinEndOfInput

SpecTwin == InitTwin /\ [][NextTwin]_vars

---------------------------------------------------------------------------
(* frame_overhead on its own: any masking flag, any payload size *)

\* the payload sizes frame_overhead is called with: around both steps of the
\* length encoding, and far beyond them
PayloadSizes ==
    (0..10) \cup (120..130) \cup (65530..65540) \cup (99998..100020)
    \cup {2147483647}

InitFrame ==
    /\ pc = [n \in Runs |-> "idle"]
    /\ i = [n \in Runs |-> 0]
    /\ r = [n \in Runs |-> DefaultResult]
    /\ flush = [n \in Runs |-> "unset"]
    /\ zlib_state = [n \in Runs |-> NoStream]
    /\ out_buf = [n \in Runs |-> EmptyBuffer]
    /\ consumed = [n \in Runs |-> <<>>]
    /\ stats = [n \in Runs |-> NoStats]
    /\ exit_status = [n \in Runs |-> -1]
    /\ perm = <<>>
    /\ fo = NoCall
    /\ args = <<>>

CallFrameOverhead(masked, payload_size) ==
    /\ fo' = [ called       |-> TRUE,
               masked       |-> masked,
               payload_size |-> payload_size,
               result       |-> frame_overhead(masked, payload_size) ]
    /\ UNCHANGED <<pc, i, r, flush, zlib_state, out_buf, consumed, stats,
                   exit_status, perm, args>>

NextFrame ==
    \E masked \in BOOLEAN, payload_size \in PayloadSizes :
        CallFrameOverhead(masked, payload_size)

SpecFrame == InitFrame /\ [][NextFrame]_vars

---------------------------------------------------------------------------
(* main up to deflateInit2, keeping the arguments it has read *)

\* main, lines 388-397: one iteration of the argument loop on argv[i]
ReadArg(arg) ==
    /\ LoadArg(1, arg)
    /\ args' = Append(args, arg)
    /\ UNCHANGED <<perm, fo>>

NextArgs ==
    \/ \E arg \in ArgVocabulary : ReadArg(arg)
    \/ \E arg \in ArgVocabulary : Help(1, arg) /\ Solo
    \/ CallDeflateTest(1) /\ Solo
    \/ ValidityFails(1) /\ Solo
    \/ ValidityPasses(1) /\ Solo
    \/ InitOk(1) /\ Solo
    \/ InitFails(1) /\ Solo

SpecArgs == Init /\ [][NextArgs]_vars

---------------------------------------------------------------------------
(* Claims *)

\* what the claims say of the run under test
results == r[1].line_results
lines == consumed[1]

RECURSIVE SumOf(_, _)
SumOf(seq, field) ==
    IF seq = <<>> THEN 0 ELSE Head(seq)[field] + SumOf(Tail(seq), field)

\* a/b = c/d for fractions with non-zero denominators
SameFraction(x, y) == x[2] # 0 /\ y[2] # 0 /\ x[1] * y[2] = y[1] * x[2]

\* C1: as long as no fatal error has been raised, the record sequence holds
\* exactly one record per line read, in input order, and record k's
\* payload_size is the length of line k, empty lines included.
C1_OneRecordPerLine ==
    ~r[1].error =>
        /\ Len(results) = Len(lines)
        /\ \A k \in 1..Len(lines) : results[k].payload_size = Len(lines[k])

\* C1 witness: a run that ended without error on an empty and a non-empty line
C1_Witness ==
    /\ pc[1] = "exit_ok"
    /\ Len(lines) = 2
    /\ lines[1] = <<>>
    /\ lines[2] # <<>>
    /\ Len(results) = 2

\* C2: the record of a zero-length message has compressed_size 2 and ratio
\* 2.0 whatever the settings are, and the step that reads an empty line leaves
\* the compression context and the output buffer as they were.
C2_EmptyMessage ==
    /\ [](\A k \in 1..Len(results) :
            lines[k] = <<>> =>
                /\ results[k].compressed_size = 2
                /\ SameFraction(results[k].ratio, <<2, 1>>))
    /\ [][(pc[1] = "loop" /\ consumed'[1] = Append(consumed[1], <<>>))
            => (zlib_state' = zlib_state /\ out_buf' = out_buf)]_vars

\* C2 witness: a client without context takeover, an empty line recorded
\* after a non-empty one went through the context
C2_Witness ==
    /\ ~r[1].is_server
    /\ ~r[1].context_takeover
    /\ Len(results) = 2
    /\ lines[1] # <<>>
    /\ lines[2] = <<>>
    /\ zlib_state[1].allocated

\* C3: frame_overhead(false, p) is 2 for p <= 125, 4 for 126 <= p <= 65535
\* and 8 for p >= 65536, and frame_overhead(true, p) is 4 more.
C3_FrameOverhead ==
    fo.called =>
        LET p == fo.payload_size
            unmasked == IF p <= 125 THEN 2
                        ELSE IF 126 <= p /\ p <= 65535 THEN 4
                        ELSE 8
        IN  /\ fo.result = (IF fo.masked THEN unmasked + 4 ELSE unmasked)
            /\ frame_overhead(TRUE, p) = frame_overhead(FALSE, p) + 4

\* C3 witness: a masked frame at the first size of the 8-byte encoding
C3_Witness ==
    /\ fo.called
    /\ fo.masked
    /\ fo.payload_size = 65536
    /\ fo.result = 12

\* the bytes a record's overheads hold beyond the length encoding
MaskBytes(k) == results[k].frame_overhead - frame_overhead(FALSE, Len(lines[k]))
MaskBytesCompressed(k) ==
    results[k].frame_overhead_compressed
    - frame_overhead(FALSE, results[k].compressed_size)

\* C4 (as claimed): the overheads of every message hold the 4-byte mask
\* exactly when direction = sending and role = client.
C4_MaskIffSendingClient ==
    \A k \in 1..Len(results) :
        LET mask == IF r[1].sending /\ ~r[1].is_server THEN 4 ELSE 0
        IN  /\ MaskBytes(k) = mask
            /\ lines[k] # <<>> => MaskBytesCompressed(k) = mask

\* C4 (amended): the overheads of every message hold the 4-byte mask exactly
\* when role = client, whatever the direction; the compressed overhead is
\* computed for the non-empty messages only.
C4_MaskIffClient ==
    \A k \in 1..Len(results) :
        LET mask == IF ~r[1].is_server THEN 4 ELSE 0
        IN  /\ MaskBytes(k) = mask
            /\ lines[k] # <<>> => MaskBytesCompressed(k) = mask

\* C4 witness: a receiving client's record of a non-empty line, masked
C4_Witness ==
    /\ ~r[1].is_server
    /\ ~r[1].sending
    /\ Len(results) >= 1
    /\ lines[1] # <<>>
    /\ results[1].frame_overhead = 6
    /\ MaskBytesCompressed(1) = 4

\* the ranges of the claim
InRange(rr) ==
    /\ rr.speed_level \in 0..9
    /\ rr.window_bits \in 8..15
    /\ rr.memory_level \in 1..9

\* C5: validation comes first.  Settings outside the ranges are rejected with
\* no context allocated, no line read and no record; settings inside them
\* (the boundaries included) pass the check.
C5_ValidationFirst ==
    /\ []((pc[1] \notin {"args", "check", "exit_help"} /\ ~InRange(r[1])) =>
            /\ r[1].error
            /\ pc[1] \in {"ret", "exit_error"}
            /\ ~zlib_state[1].allocated
            /\ lines = <<>>
            /\ results = <<>>)
    /\ [][(pc[1] = "check" /\ pc'[1] # "check") =>
            /\ InRange(r[1]) => (pc'[1] = "init" /\ ~r'[1].error)
            /\ ~InRange(r[1]) => (pc'[1] = "ret" /\ r'[1].error)]_vars

\* C5 witness: a window of 7 bits has been rejected
C5_Witness ==
    /\ pc[1] = "exit_error"
    /\ r[1].window_bits = 7
    /\ r[1].speed_level = 9

\* C6: every fatal error aborts the run: once r.error is set it stays set,
\* no further line is read or recorded, the stats are never computed and
\* main returns non-zero; a run of deflate_test without error ends with the
\* stats reported and main returning 0.
C6_FatalAborts ==
    /\ []( /\ pc[1] = "exit_error" => (exit_status[1] # 0 /\ ~stats[1].computed)
           /\ pc[1] = "exit_ok" =>
                (exit_status[1] = 0 /\ stats[1].computed /\ ~r[1].error)
           /\ r[1].error => (pc[1] \in {"ret", "exit_error"} /\ ~stats[1].computed) )
    /\ [][r[1].error =>
            /\ r'[1].error
            /\ consumed'[1] = consumed[1]
            /\ r'[1].line_results = r[1].line_results
            /\ zlib_state'[1] = zlib_state[1]]_vars
    /\ [][(pc[1] = "ret" /\ pc'[1] # "ret") =>
            pc'[1] = (IF r[1].error THEN "exit_error" ELSE "exit_ok")]_vars

\* C6 witness: the buffer ran out after a record had been produced, and main
\* returned 1 without stats
C6_Witness ==
    /\ pc[1] = "exit_error"
    /\ Len(results) = 1
    /\ Len(lines) = 2
    /\ zlib_state[1].allocated
    /\ exit_status[1] = 1

\* C7 (as claimed): no run ends with the compression context allocated and
\* not released.
C7_ReleasedAtExit ==
    pc[1] \in {"exit_error", "exit_ok"} => ~zlib_state[1].allocated

\* C8: without context takeover, a message's compressed size is the same in
\* a run over the messages in another order.
C8_ReorderIndependent ==
    ~r[1].context_takeover =>
        \A j \in 1..Len(r[2].line_results) :
            perm[j] <= Len(r[1].line_results) =>
                r[2].line_results[j].compressed_size =
                    r[1].line_results[perm[j]].compressed_size

\* C8 witness: two different non-empty messages, recorded by both runs, the
\* second run in the opposite order
C8_Witness ==
    /\ ~r[1].context_takeover
    /\ perm = <<2, 1>>
    /\ Len(r[1].line_results) = 2
    /\ Len(r[2].line_results) = 2
    /\ consumed[1][1] # <<>>
    /\ consumed[1][2] # <<>>
    /\ consumed[1][1] # consumed[1][2]
    /\ pc[2] = "ret"

\* the fields of a record that C9 is about
Measured(lr) ==
    <<lr.payload_size, lr.compressed_size, lr.frame_overhead,
      lr.frame_overhead_compressed, lr.ratio>>

\* C9 (as claimed): with context takeover, two runs over the same messages
\* in the same order give message N the same payload_size, compressed_size,
\* frame overheads and ratio.
C9_SameRecords ==
    (r[1].context_takeover /\ \A j \in 1..Len(perm) : perm[j] = j) =>
        \A j \in 1..Len(r[2].line_results) :
            j <= Len(r[1].line_results) =>
                Measured(r[2].line_results[j]) = Measured(r[1].line_results[j])

\* the mean of the per-message ratios of the records, as a fraction
RECURSIVE RatioSum(_)
RatioSum(seq) ==
    IF seq = <<>> THEN <<0, 1>>
    ELSE LET rest == RatioSum(Tail(seq))
             x == Head(seq).ratio
         IN  <<x[1] * rest[2] + rest[1] * x[2], x[2] * rest[2]>>

MeanRatio(seq) == <<RatioSum(seq)[1], RatioSum(seq)[2] * Len(seq)>>

\* C10: when the payload sizes sum to a positive value, the total ratio is
\* the sum of the compressed sizes (the 2 bytes of every empty message
\* included) over the sum of the payload sizes.
C10_SizeWeightedRatio ==
    (stats[1].computed /\ SumOf(results, "payload_size") > 0) =>
        SameFraction(stats[1].total_ratio,
                     <<SumOf(results, "compressed_size"),
                       SumOf(results, "payload_size")>>)

\* C10 witness: stats over an empty and a non-empty message, where the total
\* ratio is not the mean of the two ratios
C10_Witness ==
    /\ stats[1].computed
    /\ Len(results) = 2
    /\ \E k \in 1..2 : results[k].payload_size = 0
    /\ SumOf(results, "payload_size") > 0
    /\ ~SameFraction(stats[1].total_ratio, MeanRatio(results))

\* the size of a native int of the build, in bytes
SizeofInt == 4

\* C11: once the summary is computed, its three memory figures are functions
\* of window_bits, memory_level and the direction alone.  Sending: usage is
\* 2^(window_bits+2) + 2^(memory_level+9), the peer figures are
\* 2^window_bits + 1440*2*4 and 2^window_bits + 1440*2*8.  Receiving: usage
\* is 2^window_bits + 1440*2*sizeof(int) and both peer figures are 0.  Every
\* figure fits a signed 32-bit integer (at most 2147483647).
C11_MemoryEstimates ==
    stats[1].computed =>
        LET w == r[1].window_bits
            m == r[1].memory_level
            s == stats[1]
        IN  /\ r[1].sending =>
                /\ s.mem_usage = 2 ^ (w + 2) + 2 ^ (m + 9)
                /\ s.mem_usage_inflate_32 = 2 ^ w + 1440 * 2 * 4
                /\ s.mem_usage_inflate_64 = 2 ^ w + 1440 * 2 * 8
            /\ ~r[1].sending =>
                /\ s.mem_usage = 2 ^ w + 1440 * 2 * SizeofInt
                /\ s.mem_usage_inflate_32 = 0
                /\ s.mem_usage_inflate_64 = 0
            /\ \A v \in {s.mem_usage, s.mem_usage_inflate_32,
                         s.mem_usage_inflate_64} : 0 <= v /\ v <= 2147483647

\* C11 witness: the summary of a sending run with the default window_bits 15
\* and memory_level 8 over two messages, whose usage is 262144
C11_Witness ==
    /\ stats[1].computed
    /\ r[1].sending
    /\ r[1].window_bits = 15
    /\ r[1].memory_level = 8
    /\ Len(results) = 2
    /\ stats[1].mem_usage = 262144
    /\ stats[1].mem_usage_inflate_32 = 44288
    /\ stats[1].mem_usage_inflate_64 = 55808

\* the places of args that hold a speed_level=n token with n in 0..9 and are
\* followed by no other token for the speed level
SpeedLevelTokens ==
    { k \in 1..Len(args) :
        /\ args[k].eq
        /\ args[k].key = "speed_level"
        /\ atoi(args[k].val) \in 0..9
        /\ \A j \in (k + 1)..Len(args) :
               args[j].key \notin {"speed_level", "speed_levels"} }

\* C12: after main has read a token speed_level=n with n in 0..9, the speed
\* level of the configuration is n, and the compression context, once
\* initialised, has level n.
C12_SpeedLevelKey ==
    \A k \in SpeedLevelTokens :
        /\ r[1].speed_level = atoi(args[k].val)
        /\ zlib_state[1].allocated =>
               zlib_state[1].level = atoi(args[k].val)

\* C13: the record of a zero-length message has every field determined: its
\* payload size and elapsed time are 0 and both of its frame overheads are
\* frame_overhead at size 0 under the run's masking flag.
C13_EmptyRecordDetermined ==
    \A k \in 1..Len(results) :
        (k <= Len(lines) /\ lines[k] = <<>>) =>
            /\ results[k].payload_size = 0
            /\ results[k].elapsed_seconds = 0
            /\ results[k].frame_overhead = frame_overhead(Masked(r[1]), 0)
            /\ results[k].frame_overhead_compressed
                   = frame_overhead(Masked(r[1]), 0)

\* the bytes of the messages read so far, in input order
RECURSIVE Concat(_)
Concat(seq) == IF seq = <<>> THEN <<>> ELSE Head(seq) \o Concat(Tail(seq))

\* the last n bytes of s (all of s when it is shorter)
LastBytes(s, n) == Drop(s, Max(0, Len(s) - n))

\* C14: from the initialisation of the context on, the flush mode is the one
\* context_takeover selects (Z_SYNC_FLUSH when true, Z_FULL_FLUSH when false)
\* and never changes afterwards.  With context_takeover the history the next
\* message is compressed against is the bytes of all earlier messages (empty
\* ones add nothing), cut to the window size; without it the history is
\* empty at the start of every message.
C14_ContextTakeover ==
    /\ [](zlib_state[1].allocated =>
            /\ flush[1] = IF r[1].context_takeover THEN "Z_SYNC_FLUSH"
                          ELSE "Z_FULL_FLUSH"
            /\ zlib_state[1].window =
                   IF r[1].context_takeover
                   THEN LastBytes(Concat(lines), 2 ^ zlib_state[1].w_bits)
                   ELSE <<>>)
    /\ [][flush[1] # "unset" => flush'[1] = flush[1]]_vars

\* C14 witness: with context_takeover, a message sent twice compresses to
\* fewer bytes the second time, and the history holds both copies
C14_Witness ==
    /\ r[1].context_takeover
    /\ flush[1] = "Z_SYNC_FLUSH"
    /\ Len(results) = 2
    /\ lines[1] # <<>>
    /\ lines[2] = lines[1]
    /\ results[2].compressed_size < results[1].compressed_size
    /\ zlib_state[1].window = lines[1] \o lines[2]

\* C15: the total elapsed time of a computed summary is exactly the sum of
\* the elapsed times of the records: it starts from no earlier value and
\* computing the summary again would give the same total.
C15_ElapsedIsSum ==
    stats[1].computed =>
        stats[1].total_elapsed_seconds = SumOf(results, "elapsed_seconds")

\* C16: every step that compresses a non-empty message and pushes its record
\* writes, from cursor 0, the bytes deflate produces for that message, at
\* least 4 of them; the record's compressed size is that number minus 4, is
\* not negative (the unsigned subtraction does not wrap), and the compressed
\* frame overhead is frame_overhead of this reduced size.
C16_CompressedSize ==
    [][ ( /\ Len(consumed'[1]) = Len(lines) + 1
          /\ consumed'[1][Len(lines) + 1] # <<>>
          /\ Len(r'[1].line_results) = Len(results) + 1 ) =>
        LET line    == consumed'[1][Len(lines) + 1]
            written == out_buf'[1].m_cursor
            rec     == r'[1].line_results[Len(results) + 1]
        IN  /\ written = DeflateOutput(zlib_state[1], line)
            /\ written >= 4
            /\ rec.compressed_size = written - 4
            /\ rec.compressed_size >= 0
            /\ rec.frame_overhead_compressed
                   = frame_overhead(Masked(r[1]), written - 4) ]_vars

\* C16 witness: a client's message "a" after an empty one, no fatal error:
\* deflate wrote 7 bytes, the record holds 3, and the compressed frame
\* overhead is the 6 bytes of a masked frame of 3 bytes
C16_Witness ==
    /\ ~r[1].error
    /\ ~r[1].is_server
    /\ Len(results) = 2
    /\ lines[1] = <<>>
    /\ lines[2] = <<"a">>
    /\ out_buf[1].m_cursor = 7
    /\ results[2].compressed_size = 3
    /\ results[2].frame_overhead_compressed = 6

===========================================================================
